---- MODULE Spec2Model ----
(***************************************************************************)
(* The LZ4 block decoder of src/block/decompress_safe.rs as a state        *)
(* machine: one decode call (decompress_internal) is run step by step on   *)
(* an input block, a sink and an optional external dictionary.             *)
(* Bytes are the integers 0..255; the sink is the byte buffer `output`     *)
(* (its length is the capacity) with the write cursor `pos`.               *)
(***************************************************************************)
EXTENDS Integers, Sequences, FiniteSets, TLC

VARIABLES
    \* ---- the call's arguments and the build
    input,            \* &[u8]: the compressed block
    ext_dict,         \* &[u8]: the external dictionary (b"" without one)
    use_dict,         \* const USE_DICT
    checked,          \* cfg(feature = "checked-decode")
    \* ---- the sink
    output,           \* Sink.output, Len(output) = capacity
    pos,              \* Sink.pos
    \* ---- locals of decompress_internal / duplicate_slice
    input_pos,
    token,
    offset,           \* the offset of the current sequence, NoOffset until its header is read
    match_length,
    chunk_i,          \* loop variable i of the 16-byte chunk loop
    chunk_end,        \* end of that loop's range, start + match_length
    output_end,       \* duplicate_slice's output_end
    pc,               \* position in the code
    result,           \* "none" while running, "Ok", an error kind, or "Panic"
    \* ---- bookkeeping of the verification
    call,             \* 1: sink sized to the nominal length, 2: another capacity
    iters,            \* iterations of the decode loop in this call
    m_pos,            \* sink.pos when the current sequence's offset was read
    m_len,            \* the match length as read (before the dictionary splice)
    m_fast,           \* the current sequence is handled by the fast path
    used_fast,        \* some sequence of this call was handled by the fast path
    entry_pos,        \* sink.pos when the match copier was entered
    plain,            \* reference decoding of the untruncated block (<<>> if none)
    wf,               \* the untruncated block is well formed without dictionary
    trunc,            \* number of trailing bytes removed from the block
    ref,              \* outcome of call 1: [result, n, out, cap]
    \* ---- read_integer run on a long 0xFF run (specification SpecLsic)
    overflow_checks,  \* the build traps u32 overflow (debug) or wraps (release)
    lsic_rest,        \* extension bytes still to read
    lsic_n,           \* the u32 accumulator n, as 16-bit limbs [hi, lo]
    lsic_sum,         \* the mathematical sum of the bytes read, [hi, lo], hi unbounded
    lsic_res          \* "run", "Ok", "ExpectedAnotherByte", "Panic"

args == <<input, ext_dict, use_dict, checked>>
sink == <<output, pos>>
locals == <<input_pos, token, offset, match_length, chunk_i, chunk_end, output_end>>
ghost == <<call, iters, m_pos, m_len, m_fast, used_fast, entry_pos, plain, wf, trunc, ref>>
lsic == <<overflow_checks, lsic_rest, lsic_n, lsic_sum, lsic_res>>
vars == <<args, sink, locals, pc, result, ghost, lsic>>

(***************************************************************************)
(* Bounds of the model.                                                    *)
(***************************************************************************)
MaxLit == 1           \* short literal runs are 0..MaxLit bytes long
MaxOffset == 2        \* small offsets are 0..MaxOffset
MaxMatchExtra == 1    \* short matches are 4..4+MaxMatchExtra bytes long
MaxSlack == 1         \* spare capacity tried above a length
DictLen == 4          \* length of the external dictionary
MaxFF == 1            \* 0xFF bytes counted from either end of a long run
MaxLsicLen == 3       \* extension bytes read step by step

(***************************************************************************)
(* Program constants.                                                      *)
(***************************************************************************)
MINMATCH == 4
FIT_TOKEN_MASK_LITERAL == 15
FIT_TOKEN_MASK_MATCH == 240
NoOffset == 0 - 1

Min(a, b) == IF a < b THEN a ELSE b

\* usize::saturating_sub
saturating_sub(a, b) == IF a >= b THEN a - b ELSE 0

\* mutant: the overflow of the subtraction is ignored
overflowing_sub_unchecked(a, b) == [val |-> IF a >= b THEN a - b ELSE 0, did_overflow |-> FALSE]

\* usize::overflowing_sub: the wrapped difference is never used when it overflowed
overflowing_sub(a, b) == [val |-> IF a >= b THEN a - b ELSE 0, did_overflow |-> a < b]

\* slice[a..b) of a 0-based byte string
Slice(s, a, b) == SubSeq(s, a + 1, b)

\* dst[p..p+len(bytes)).copy_from_slice(bytes)
copy_from_slice(out, p, bytes) ==
    [k \in 1..Len(out) |->
        IF k > p /\ k <= p + Len(bytes) THEN bytes[k - p] ELSE out[k]]

\* <[u8]>::copy_within(src..src+n, dst): memmove, the source is read before any write
copy_within(out, src, n, dst) == copy_from_slice(out, dst, Slice(out, src, src + n))

(***************************************************************************)
(* Primitive readers.                                                      *)
(***************************************************************************)
\* n += extra as u32, on 16-bit limbs; overflow is carried out of the high limb
U32Add(n, extra) ==
    LET lo == n.lo + extra
        hi == n.hi + (lo \div 65536)
    IN  [hi |-> hi % 65536, lo |-> lo % 65536, overflow |-> hi >= 65536]

U32ToUsize(n) == n.hi * 65536 + n.lo

\* one iteration of read_integer's loop
read_integer_iter(inp, p, n, trap) ==
    IF p >= Len(inp)
    THEN [st |-> "ExpectedAnotherByte", pos |-> p, n |-> n]
    ELSE LET extra == inp[p + 1]
             s == U32Add(n, extra)
         IN  IF s.overflow /\ trap
             THEN [st |-> "Panic", pos |-> p + 1, n |-> n]
             ELSE [st |-> IF extra # 255 THEN "break" ELSE "continue",
                   pos |-> p + 1, n |-> [hi |-> s.hi, lo |-> s.lo]]

RECURSIVE read_integer_loop(_, _, _, _)
read_integer_loop(inp, p, n, trap) ==
    LET r == read_integer_iter(inp, p, n, trap)
    IN  IF r.st = "continue" THEN read_integer_loop(inp, r.pos, r.n, trap)
        ELSE [err |-> IF r.st = "break" THEN "" ELSE r.st,
              val |-> U32ToUsize(r.n), pos |-> r.pos]

read_integer(inp, p, trap) == read_integer_loop(inp, p, [hi |-> 0, lo |-> 0], trap)

\* mutant: the token is read without advancing input_pos
fetch_token_stuck(inp, p) == [val |-> inp[p + 1], pos |-> p]

\* the token fetch of the decode loop, called with p < Len(inp)
fetch_token(inp, p) == [val |-> inp[p + 1], pos |-> p + 1]

read_u16(inp, p) ==
    IF p + 2 > Len(inp)
    THEN [err |-> "ExpectedAnotherByte", val |-> 0, pos |-> p]
    ELSE [err |-> "", val |-> inp[p + 1] + 256 * inp[p + 2], pos |-> p + 2]

does_token_fit(tok) ==
    ~(   (tok % 16) = FIT_TOKEN_MASK_LITERAL
      \/ (tok \div 16) * 16 = FIT_TOKEN_MASK_MATCH)

safe_input_pos(inp) == saturating_sub(Len(inp), 16 + 2)
safe_output_pos(out) == saturating_sub(Len(out), 16 + 18)

\* the fast-path gate of the decode loop
fast_path_gate(tok, ipos, inp, out, p) ==
    does_token_fit(tok) /\ ipos <= safe_input_pos(inp) /\ p < safe_output_pos(out)

(***************************************************************************)
(* The sink.                                                               *)
(***************************************************************************)
\* Sink::extend_from_slice: [err, out, pos]
Sink_extend_from_slice(out, p, bytes) ==
    IF p + Len(bytes) > Len(out)
    THEN [err |-> "Panic", out |-> out, pos |-> p]
    ELSE [err |-> "", out |-> copy_from_slice(out, p, bytes), pos |-> p + Len(bytes)]

\* Sink::as_slice: the view output[..pos]
Sink_as_slice(out, p) == SubSeq(out, 1, p)

\* Sink::push: [err, out, pos]
Sink_push(out, p, b) ==
    IF p >= Len(out) THEN [err |-> "Panic", out |-> out, pos |-> p]
    ELSE [err |-> "", out |-> [out EXCEPT ![p + 1] = b], pos |-> p + 1]

\* for i in start..start+n { let b = sink.as_slice()[i]; sink.push(b); }
\* indexing the view at i >= pos panics
RECURSIVE push_loop(_, _, _, _)
push_loop(out, p, i, n) ==
    IF n = 0 THEN [err |-> "", out |-> out, pos |-> p]
    ELSE LET view == Sink_as_slice(out, p)
         IN  IF i >= Len(view) THEN [err |-> "Panic", out |-> out, pos |-> p]
             ELSE LET r == Sink_push(out, p, view[i + 1])
                  IN  IF r.err # "" THEN r ELSE push_loop(r.out, r.pos, i + 1, n - 1)

(***************************************************************************)
(* Dictionary splicer and match copiers.                                   *)
(***************************************************************************)
dict_match_length(dict, dict_offset, ml) == Min(ml, Len(dict) - dict_offset)

\* copy_from_dict: [err, out, pos, copied]
copy_from_dict(out, p, dict, off, ml) ==
    LET d == overflowing_sub(Len(dict), off - p)
    IN  IF d.did_overflow
        THEN [err |-> "OffsetOutOfBounds", out |-> out, pos |-> p, copied |-> 0]
        ELSE LET n == dict_match_length(dict, d.val, ml)
                 e == Sink_extend_from_slice(out, p, Slice(dict, d.val, d.val + n))
             IN  [err |-> e.err, out |-> e.out, pos |-> e.pos, copied |-> n]

\* duplicate_overlapping_slice: [err, out, pos]
duplicate_overlapping_slice(out, p, off, ml) ==
    LET s == overflowing_sub(p, off)
    IN  IF s.did_overflow THEN [err |-> "OffsetOutOfBounds", out |-> out, pos |-> p]
        ELSE IF off = 1
        THEN IF s.val >= Len(Sink_as_slice(out, p)) \/ p + ml > Len(out)
             THEN [err |-> "Panic", out |-> out, pos |-> p]
             ELSE LET val == Sink_as_slice(out, p)[s.val + 1]
                  IN  [err |-> "", out |-> copy_from_slice(out, p, [k \in 1..ml |-> val]),
                       pos |-> p + ml]
        ELSE push_loop(out, p, s.val, ml)

\* mutant: the wrapper does not compare the decoded length
decompress_result_unchecked(res, n, uncompressed_size) == res

\* decompress: what the wrapper returns for decompress_into's result res and length n
decompress_result(res, n, uncompressed_size) ==
    IF res = "Ok" /\ n # uncompressed_size THEN "UncompressedSizeDiffers" ELSE res

\* mutant: output_end forgets the cursor
OutputEnd_relative(p, ml) == ml

\* duplicate_slice's output_end
OutputEnd(p, ml) == p + ml

\* mutant: the chunked copy is selected without room for its overcopy
chunked_copy_fits_exact(end, out) == end <= Len(out)

\* the capacity test that selects the 16-byte chunked copy
chunked_copy_fits(end, out) == end + (16 - 1) <= Len(out)

(***************************************************************************)
(* The blocks the decoder is run on: a block is a list of sequences        *)
(* [lit, off, ml] (literal count, offset, match length) and the literal    *)
(* count of the final, literal-only sequence.  Encode writes it in the     *)
(* LZ4 block format; RefDecode is the reference decoding of the format.    *)
(***************************************************************************)
LitBytes(j0, n) == [k \in 1..n |-> 100 + j0 + k - 1]
DictBytes == [k \in 1..DictLen |-> 200 + k]

EncodeLits(lit, j0) ==
    (IF lit >= 15 THEN <<lit - 15>> ELSE <<>>) \o LitBytes(j0, lit)

EncodeSeq(s, j0) ==
    <<Min(s.lit, 15) * 16 + Min(s.ml - MINMATCH, 15)>> \o EncodeLits(s.lit, j0)
        \o <<s.off % 256, s.off \div 256>>
        \o (IF s.ml - MINMATCH >= 15 THEN <<s.ml - MINMATCH - 15>> ELSE <<>>)

RECURSIVE EncodeFrom(_, _, _)
EncodeFrom(seqs, final, j0) ==
    IF seqs = <<>> THEN <<Min(final, 15) * 16>> \o EncodeLits(final, j0)
    ELSE EncodeSeq(Head(seqs), j0) \o EncodeFrom(Tail(seqs), final, j0 + Head(seqs).lit)

Encode(b) == EncodeFrom(b.seqs, b.final, 0)

\* n bytes of the virtual string v, each taken off bytes behind its end
RECURSIVE RefMatch(_, _, _)
RefMatch(v, off, n) ==
    IF n = 0 THEN v ELSE RefMatch(Append(v, v[Len(v) - off + 1]), off, n - 1)

RECURSIVE RefFrom(_, _, _, _)
RefFrom(seqs, final, j0, v) ==
    IF seqs = <<>> THEN [ok |-> TRUE, out |-> v \o LitBytes(j0, final)]
    ELSE LET s == Head(seqs)
             w == v \o LitBytes(j0, s.lit)
         IN  IF s.off < 1 \/ s.off > Len(w) THEN [ok |-> FALSE, out |-> <<>>]
             ELSE RefFrom(Tail(seqs), final, j0 + s.lit, RefMatch(w, s.off, s.ml))

RefDecode(b) == RefFrom(b.seqs, b.final, 0, <<>>)

RECURSIVE Nominal(_, _)
Nominal(seqs, final) ==
    IF seqs = <<>> THEN final
    ELSE Head(seqs).lit + Head(seqs).ml + Nominal(Tail(seqs), final)

LitLens == (0..MaxLit) \cup {14, 15}
Offsets == (0..MaxOffset) \cup {14, 18, 257}
MatchLens == (MINMATCH..(MINMATCH + MaxMatchExtra)) \cup {18, 19}
FirstSeqs == [lit : LitLens, off : Offsets, ml : MatchLens]
LaterSeqs == [lit : 0..MaxLit, off : {1, 18}, ml : {MINMATCH, 18}]
Finals == {0, 15}

Blocks ==
    LET one == {<<s>> : s \in FirstSeqs}
        two == {<<s, t>> : s \in FirstSeqs, t \in LaterSeqs}
    IN  [seqs : {<<>>} \cup one \cup two, final : Finals]

\* a block with its last k bytes removed
BlockCase(b, k) ==
    LET r == RefDecode(b)
        enc == Encode(b)
    IN  [input |-> SubSeq(enc, 1, Len(enc) - k), nominal |-> Nominal(b.seqs, b.final),
         plain |-> r.out, wf |-> r.ok, trunc |-> k]

\* the inputs of the tests all_literal and offset_oob
TestCases ==
    { [input |-> <<48, 97, 52, 57>>, nominal |-> 3, plain |-> <<97, 52, 57>>,
       wf |-> TRUE, trunc |-> 0],
      [input |-> <<16, 97, 2, 0>>, nominal |-> 4, plain |-> <<>>, wf |-> FALSE, trunc |-> 0],
      [input |-> <<64, 97, 1, 0>>, nominal |-> 4, plain |-> <<>>, wf |-> FALSE, trunc |-> 0] }

\* a block is decoded whole, and a well-formed one also with its last k >= 1 bytes removed
Cuts(b) == IF RefDecode(b).ok THEN 0..Len(Encode(b)) ELSE {0}

\* capacities of the second call on an input of nominal length n
Caps(n) ==
    ({n + d : d \in 1..MaxSlack} \cup {n - 1} \cup {16 + 18 + 1 + d : d \in 0..MaxSlack})
        \ {n, 0 - 1}

Zeros(c) == [k \in 1..c |-> 0]

(***************************************************************************)
(* The state machine.                                                      *)
(***************************************************************************)
\* the entry of decompress_internal on a fresh sink of capacity c
Enter(c) ==
    /\ output = Zeros(c)
    /\ pos = 0
    /\ input_pos = 0
    /\ token = 0
    /\ offset = NoOffset
    /\ match_length = 0
    /\ chunk_i = 0
    /\ chunk_end = 0
    /\ output_end = 0
    /\ pc = "token"
    /\ result = "none"
    /\ iters = 0
    /\ m_pos = 0
    /\ m_len = 0
    /\ m_fast = FALSE
    /\ used_fast = FALSE
    /\ entry_pos = 0

LsicIdle ==
    /\ overflow_checks = FALSE
    /\ lsic_rest = <<>>
    /\ lsic_n = [hi |-> 0, lo |-> 0]
    /\ lsic_sum = [hi |-> 0, lo |-> 0]
    /\ lsic_res = "idle"

\* a call of decompress / decompress_with_dict on the case c
InitCase(c, d) ==
    /\ (c.trunc > 0 => ~d)
    /\ input = c.input
    /\ plain = c.plain
    /\ wf = c.wf
    /\ trunc = c.trunc
    /\ use_dict = d
    /\ ext_dict = IF d THEN DictBytes ELSE <<>>
    /\ Enter(c.nominal)

Init ==
    /\ checked \in BOOLEAN
    /\ \/ \E c \in TestCases, d \in BOOLEAN : InitCase(c, d)
       \/ \E b \in Blocks, d \in BOOLEAN : \E k \in Cuts(b) : InitCase(BlockCase(b, k), d)
    /\ call = 1
    /\ ref = [result |-> "none", n |-> 0, out |-> <<>>, cap |-> 0]
    /\ LsicIdle

\* return from the call with r
Finish(r) ==
    /\ pc' = "done"
    /\ result' = r

\* lines 134-145: fetch the token and choose the path
ReadToken ==
    /\ pc = "token"
    /\ offset' = NoOffset
    /\ IF input_pos >= Len(input)
       THEN /\ Finish("ExpectedAnotherByte")
            /\ UNCHANGED <<input_pos, token, iters, m_fast, used_fast>>
       ELSE LET t == fetch_token(input, input_pos)
                fast == fast_path_gate(t.val, t.pos, input, output, pos)
            IN  /\ token' = t.val
                /\ input_pos' = t.pos
                /\ iters' = iters + 1
                /\ m_fast' = fast
                /\ used_fast' = (used_fast \/ fast)
                /\ pc' = IF fast THEN "fast_literal" ELSE "literal"
                /\ UNCHANGED result
    /\ UNCHANGED <<args, sink, match_length, chunk_i, chunk_end, output_end>>
    /\ UNCHANGED <<call, m_pos, m_len, entry_pos, plain, wf, trunc, ref, lsic>>

\* lines 146-160: the fast path's 16-byte literal copy
FastLiteral ==
    /\ pc = "fast_literal"
    /\ LET literal_length == token \div 16
       IN  IF input_pos + literal_length > Len(input)
           THEN Finish("LiteralOutOfBounds") /\ UNCHANGED <<sink, input_pos>>
           ELSE IF input_pos + 16 > Len(input) \/ pos + 16 > Len(output)
           THEN Finish("Panic") /\ UNCHANGED <<sink, input_pos>>
           ELSE /\ output' = copy_from_slice(output, pos, Slice(input, input_pos, input_pos + 16))
                /\ pos' = pos + literal_length
                /\ input_pos' = input_pos + literal_length
                /\ pc' = "fast_match"
                /\ UNCHANGED result
    /\ UNCHANGED <<args, token, offset, match_length, chunk_i, chunk_end, output_end, ghost, lsic>>

\* lines 162-166: the fast path's offset and match length
FastMatch ==
    /\ pc = "fast_match"
    /\ LET r == read_u16(input, input_pos)
           ml == MINMATCH + (token % 16)
       IN  IF r.err # ""
           THEN Finish(r.err) /\ UNCHANGED <<input_pos, offset, match_length, m_pos, m_len>>
           ELSE /\ input_pos' = r.pos
                /\ offset' = r.val
                /\ match_length' = ml
                /\ m_pos' = pos
                /\ m_len' = ml
                /\ pc' = IF use_dict /\ r.val > pos THEN "fast_dict" ELSE "fast_copy"
                /\ UNCHANGED result
    /\ UNCHANGED <<args, sink, token, chunk_i, chunk_end, output_end>>
    /\ UNCHANGED <<call, iters, m_fast, used_fast, entry_pos, plain, wf, trunc, ref, lsic>>

\* the dictionary splice of either path, continuing at pc value `next`
Splice(next) ==
    LET c == copy_from_dict(output, pos, ext_dict, offset, match_length)
    IN  /\ output' = c.out
        /\ pos' = c.pos
        /\ IF c.err # ""
           THEN Finish(c.err) /\ UNCHANGED match_length
           ELSE IF c.copied = match_length
           THEN pc' = "token" /\ UNCHANGED <<match_length, result>>
           ELSE /\ match_length' = match_length - c.copied
                /\ pc' = next
                /\ UNCHANGED result
        /\ UNCHANGED <<args, input_pos, token, offset, chunk_i, chunk_end, output_end, ghost, lsic>>

\* lines 166-173
FastDict == pc = "fast_dict" /\ Splice("fast_copy")

\* lines 178-192: the fast path's match copy
FastCopy ==
    /\ pc = "fast_copy"
    /\ LET s == overflowing_sub(pos, offset)
       IN  IF s.did_overflow
           THEN Finish("OffsetOutOfBounds") /\ UNCHANGED sink
           ELSE IF offset >= match_length
           THEN IF s.val + 18 > Len(output) \/ pos + 18 > Len(output)
                THEN Finish("Panic") /\ UNCHANGED sink
                ELSE /\ output' = copy_within(output, s.val, 18, pos)
                     /\ pos' = pos + match_length
                     /\ pc' = "token"
                     /\ UNCHANGED result
           ELSE LET r == push_loop(output, pos, s.val, match_length)
                IN  /\ output' = r.out
                    /\ pos' = r.pos
                    /\ IF r.err # "" THEN Finish(r.err)
                       ELSE pc' = "token" /\ UNCHANGED result
    /\ UNCHANGED <<args, locals, ghost, lsic>>

NoInteger(p) == [err |-> "", val |-> 0, pos |-> p]

\* lines 198-224: the literal section and the end-of-block test
ReadLiteral ==
    /\ pc = "literal"
    /\ LET hi == token \div 16
           ri == IF hi = 15 THEN read_integer(input, input_pos, overflow_checks)
                 ELSE NoInteger(input_pos)
           literal_length == hi + ri.val
           e == Sink_extend_from_slice(output, pos,
                    Slice(input, ri.pos, ri.pos + literal_length))
       IN  IF ri.err # ""
           THEN Finish(ri.err) /\ input_pos' = ri.pos /\ UNCHANGED sink
           ELSE IF ri.pos + literal_length > Len(input)
           THEN Finish("LiteralOutOfBounds") /\ input_pos' = ri.pos /\ UNCHANGED sink
           ELSE IF checked /\ hi # 0 /\ pos + literal_length > Len(output)
           THEN Finish("OutputTooSmall") /\ input_pos' = ri.pos /\ UNCHANGED sink
           ELSE IF e.err # ""
           THEN Finish(e.err) /\ input_pos' = ri.pos /\ UNCHANGED sink
           ELSE /\ output' = e.out
                /\ pos' = e.pos
                /\ input_pos' = ri.pos + literal_length
                /\ IF ri.pos + literal_length >= Len(input)
                   THEN Finish("Ok")
                   ELSE pc' = "match" /\ UNCHANGED result
    /\ UNCHANGED <<args, token, offset, match_length, chunk_i, chunk_end, output_end, ghost, lsic>>

\* lines 226-248: the slow path's offset and match length
ReadMatch ==
    /\ pc = "match"
    /\ LET r == read_u16(input, input_pos)
           lo == MINMATCH + (token % 16)
           ri == IF r.err = "" /\ lo = MINMATCH + 15
                 THEN read_integer(input, r.pos, overflow_checks)
                 ELSE NoInteger(r.pos)
           ml == lo + ri.val
       IN  IF r.err # "" \/ ri.err # ""
           THEN /\ Finish(IF r.err # "" THEN r.err ELSE ri.err)
                /\ input_pos' = ri.pos
                /\ UNCHANGED <<offset, match_length, m_pos, m_len>>
           ELSE /\ input_pos' = ri.pos
                /\ offset' = r.val
                /\ match_length' = ml
                /\ m_pos' = pos
                /\ m_len' = ml
                /\ IF checked /\ pos + ml > Len(output)
                   THEN Finish("OutputTooSmall")
                   ELSE /\ pc' = IF use_dict /\ r.val > pos THEN "dict" ELSE "dup"
                        /\ UNCHANGED result
    /\ UNCHANGED <<args, sink, token, chunk_i, chunk_end, output_end>>
    /\ UNCHANGED <<call, iters, m_fast, used_fast, entry_pos, plain, wf, trunc, ref, lsic>>

\* lines 249-256
DictSplice == pc = "dict" /\ Splice("dup")

\* lines 286-300 and 305-309: duplicate_slice up to its copy
DuplicateSlice ==
    /\ pc = "dup"
    /\ entry_pos' = pos
    /\ IF match_length > offset
       THEN LET r == duplicate_overlapping_slice(output, pos, offset, match_length)
            IN  /\ output' = r.out
                /\ pos' = r.pos
                /\ IF r.err # "" THEN Finish(r.err) ELSE pc' = "token" /\ UNCHANGED result
                /\ UNCHANGED <<chunk_i, chunk_end, output_end>>
       ELSE LET s == overflowing_sub(pos, offset)
                end == OutputEnd(pos, match_length)
            IN  IF s.did_overflow
                THEN /\ Finish("OffsetOutOfBounds")
                     /\ UNCHANGED <<sink, chunk_i, chunk_end, output_end>>
                ELSE IF chunked_copy_fits(end, output)
                THEN /\ output_end' = end
                     /\ chunk_i' = s.val
                     /\ chunk_end' = s.val + match_length
                     /\ pc' = IF s.val < s.val + match_length THEN "chunk" ELSE "set_pos"
                     /\ UNCHANGED <<sink, result>>
                ELSE IF s.val + match_length > Len(output) \/ pos + match_length > Len(output)
                THEN /\ Finish("Panic")
                     /\ output_end' = end
                     /\ UNCHANGED <<sink, chunk_i, chunk_end>>
                ELSE /\ output' = copy_within(output, s.val, match_length, pos)
                     /\ output_end' = end
                     /\ pc' = "set_pos"
                     /\ UNCHANGED <<pos, chunk_i, chunk_end, result>>
    /\ UNCHANGED <<args, input_pos, token, offset, match_length>>
    /\ UNCHANGED <<call, iters, m_pos, m_len, m_fast, used_fast, plain, wf, trunc, ref, lsic>>

\* lines 301-304: one 16-byte chunk
CopyChunk ==
    /\ pc = "chunk"
    /\ IF chunk_i + 16 > Len(output) \/ pos + 16 > Len(output)
       THEN Finish("Panic") /\ UNCHANGED <<sink, chunk_i>>
       ELSE /\ output' = copy_within(output, chunk_i, 16, pos)
            /\ pos' = pos + 16
            /\ chunk_i' = chunk_i + 16
            /\ pc' = IF chunk_i + 16 < chunk_end THEN "chunk" ELSE "set_pos"
            /\ UNCHANGED result
    /\ UNCHANGED <<args, input_pos, token, offset, match_length, chunk_end, output_end, ghost, lsic>>

\* line 310: output.set_pos(output_end)
SetPos ==
    /\ pc = "set_pos"
    /\ pos' = output_end
    /\ pc' = "token"
    /\ UNCHANGED <<args, output, locals, result, ghost, lsic>>

\* the same input and dictionary are decoded again into a sink of another capacity
NextCall ==
    /\ pc = "done"
    /\ call = 1
    /\ trunc = 0
    /\ call' = 2
    /\ ref' = [result |-> result, n |-> pos, out |-> SubSeq(output, 1, pos), cap |-> Len(output)]
    /\ \E c \in Caps(Len(output)) :
         /\ output' = Zeros(c)
         /\ pos' = 0
         /\ input_pos' = 0
         /\ token' = 0
         /\ offset' = NoOffset
         /\ match_length' = 0
         /\ chunk_i' = 0
         /\ chunk_end' = 0
         /\ output_end' = 0
         /\ pc' = "token"
         /\ result' = "none"
         /\ iters' = 0
         /\ m_pos' = 0
         /\ m_len' = 0
         /\ m_fast' = FALSE
         /\ used_fast' = FALSE
         /\ entry_pos' = 0
    /\ UNCHANGED <<args, plain, wf, trunc, lsic>>

Next ==
    \/ ReadToken
    \/ FastLiteral
    \/ FastMatch
    \/ FastDict
    \/ FastCopy
    \/ ReadLiteral
    \/ ReadMatch
    \/ DictSplice
    \/ DuplicateSlice
    \/ CopyChunk
    \/ SetPos
    \/ NextCall

Spec == Init /\ [][Next]_vars

(***************************************************************************)
(* read_integer on a long run of 0xFF bytes: the loop is entered after     *)
(* ff bytes 0xFF have been read (n = 255 * ff, at most 2^32 - 1) and reads  *)
(* the bytes of lsic_rest one per step.                                    *)
(***************************************************************************)
Times255(k) ==
    LET lo == 255 * (k % 65536)
    IN  [hi |-> 255 * (k \div 65536) + (lo \div 65536), lo |-> lo % 65536]

FFRuns == (0..MaxFF) \cup {16843009 - d : d \in 0..MaxFF}
LsicInputs == UNION {[1..n -> {0, 1, 255}] : n \in 1..MaxLsicLen}

InitLsic ==
    /\ input = <<>>
    /\ ext_dict = <<>>
    /\ use_dict = FALSE
    /\ checked = FALSE
    /\ Enter(0)
    /\ call = 1
    /\ plain = <<>>
    /\ wf = FALSE
    /\ trunc = 0
    /\ ref = [result |-> "none", n |-> 0, out |-> <<>>, cap |-> 0]
    /\ overflow_checks \in BOOLEAN
    /\ lsic_rest \in LsicInputs
    /\ \E k \in FFRuns : lsic_n = Times255(k) /\ lsic_sum = Times255(k)
    /\ lsic_res = "run"

\* lines 32-41: one iteration of read_integer's loop
LsicRead ==
    /\ lsic_res = "run"
    /\ LET r == read_integer_iter(lsic_rest, 0, lsic_n, overflow_checks)
       IN  /\ lsic_n' = r.n
           /\ lsic_res' = IF r.st = "break" THEN "Ok"
                          ELSE IF r.st = "continue" THEN "run" ELSE r.st
           /\ IF lsic_rest = <<>>
              THEN UNCHANGED <<lsic_rest, lsic_sum>>
              ELSE /\ lsic_rest' = Tail(lsic_rest)
                   /\ lsic_sum' = LET lo == lsic_sum.lo + Head(lsic_rest)
                                  IN  [hi |-> lsic_sum.hi + (lo \div 65536), lo |-> lo % 65536]
    /\ UNCHANGED <<args, sink, locals, pc, result, ghost, overflow_checks>>

SpecLsic == InitLsic /\ [][LsicRead]_vars

(***************************************************************************)
(* The claims.                                                             *)
(***************************************************************************)
ErrorKinds ==
    {"ExpectedAnotherByte", "LiteralOutOfBounds", "OffsetOutOfBounds", "OutputTooSmall",
     "UncompressedSizeDiffers"}

Capacity == Len(output)
Written == SubSeq(output, 1, pos)

\* C1: decompress(B, len(plain)) of a well-formed block B without dictionary returns
\* Ok with exactly the bytes of plain, the reference decoding of B.
C1_RoundTrip ==
    (call = 1 /\ pc = "done" /\ wf /\ trunc = 0 /\ ~use_dict)
        => /\ decompress_result(result, pos, Capacity) = "Ok"
           /\ pos = Len(plain)
           /\ Written = plain

\* a well-formed block with two matches, one of them decoded by the fast path, is returned
C1_Witness ==
    /\ call = 1 /\ pc = "done" /\ wf /\ trunc = 0 /\ ~use_dict
    /\ result = "Ok" /\ used_fast /\ iters >= 3 /\ Written = plain

\* C2: a match offset of 0, read in a complete sequence whose match fits the sink, ends
\* the call with OffsetOutOfBounds and no byte of the match written.
C2_OffsetZeroRejected ==
    (pc = "done" /\ offset = 0 /\ m_pos + m_len <= Capacity)
        => (result = "OffsetOutOfBounds" /\ pos = m_pos)

\* the history available to the current match
History == IF use_dict THEN m_pos + Len(ext_dict) ELSE m_pos

\* an offset beyond the available history has been read in a complete sequence
BeyondHistory == offset # NoOffset /\ offset > History

\* C3 as stated: an offset beyond the available history, read in a complete sequence,
\* ends the call with OffsetOutOfBounds before any byte of the match is written.
C3_Original ==
    BeyondHistory
        => /\ pos = m_pos
           /\ pc \in {"dict", "dup", "fast_dict", "fast_copy", "done"}
           /\ pc = "done" => result = "OffsetOutOfBounds"

\* C3 amended: the same, except that a build with checked-decode returns OutputTooSmall
\* from the slow path when the match does not fit the sink, before it looks at the offset.
C3_OffsetBeyondHistory ==
    BeyondHistory
        => /\ pos = m_pos
           /\ pc \in {"dict", "dup", "fast_dict", "fast_copy", "done"}
           /\ pc = "done" =>
                IF checked /\ ~m_fast /\ m_pos + m_len > Capacity
                THEN result = "OutputTooSmall"
                ELSE result = "OffsetOutOfBounds"

\* an offset beyond output and dictionary is rejected by the dictionary splicer
C3_Witness ==
    /\ pc = "done" /\ use_dict /\ offset # NoOffset /\ offset > m_pos + Len(ext_dict)
    /\ result = "OffsetOutOfBounds" /\ m_pos > 0

\* C4 as stated: decompress_into of a valid block cut by k >= 1 trailing bytes, into a
\* sink of the block's decoded length, returns an error.
C4_Original ==
    (call = 1 /\ pc = "done" /\ wf /\ trunc > 0) => result \in ErrorKinds

\* C4 amended: it returns an error, or Ok with a proper prefix of the decoded bytes (the
\* cut fell right after a sequence's literals); decompress then returns an error.
C4_TruncationDetected ==
    (call = 1 /\ pc = "done" /\ wf /\ trunc > 0)
        => /\ \/ result \in ErrorKinds
              \/ /\ result = "Ok"
                 /\ pos < Len(plain)
                 /\ Written = SubSeq(plain, 1, pos)
           /\ decompress_result(result, pos, Capacity) \in ErrorKinds

\* a cut block that decompress_into accepts
C4_Witness ==
    call = 1 /\ pc = "done" /\ wf /\ trunc > 0 /\ result = "Ok" /\ pos > 0

\* C5: a decode that succeeds with N bytes in a sink of capacity N succeeds with the
\* same N bytes in a sink of any capacity c >= N.
C5_CapacityIndependent ==
    (call = 2 /\ pc = "done" /\ ref.result = "Ok" /\ ref.n = ref.cap /\ Capacity >= ref.cap)
        => (result = "Ok" /\ pos = ref.n /\ Written = ref.out)

\* the current match starts in the dictionary and fits the sink
Straddles ==
    /\ use_dict /\ offset # NoOffset
    /\ m_pos < offset /\ offset <= m_pos + Len(ext_dict)
    /\ m_pos + m_len <= Capacity

\* the virtual string dict ++ output with the current match appended
Virtual == RefMatch(ext_dict \o SubSeq(output, 1, m_pos), offset, m_len)

\* C6: a match read at cursor p with p < o <= p + dict.len() appends exactly L bytes,
\* those of dict ++ output from index dict.len() + p - o on, left to right.
C6_DictionaryMatch ==
    Straddles
        => /\ result = "none"
           /\ pc = "token"
                => /\ pos = m_pos + m_len
                   /\ SubSeq(output, m_pos + 1, pos)
                        = SubSeq(Virtual, Len(ext_dict) + m_pos + 1, Len(Virtual))

\* C7 as stated: no update of pos within a call lowers it.
C7_Original == [][call' = call => pos' >= pos]_vars

\* C7 amended: the only update that lowers pos is the set_pos after the chunked copy,
\* which takes pos from an overshoot of at most 15 bytes to the match's end, at or above
\* its value when the match copier was entered.
C7_CursorMonotone ==
    [][call' = call =>
         IF pc = "set_pos"
         THEN pos' = entry_pos + match_length /\ pos' >= entry_pos /\ pos - pos' <= 15
         ELSE pos' >= pos]_vars

\* the chunked copy has moved pos past the end of the match
C7_Witness == pc = "set_pos" /\ pos > output_end /\ entry_pos > 0

\* C8: when the fast-path gate held, the 16-byte literal read and write, the offset read
\* and the 18-byte match copy lie inside the input and inside [0, capacity).
C8_FastPathInBounds ==
    /\ pc = "fast_literal" => (input_pos + 16 <= Len(input) /\ pos + 16 <= Capacity)
    /\ pc = "fast_match" => input_pos + 2 <= Len(input)
    /\ (pc = "fast_copy" /\ offset <= pos /\ offset >= match_length)
            => (pos - offset + 18 <= Capacity /\ pos + 18 <= Capacity)

\* C9: read_integer returns the sum of the bytes it read, and reports an error when
\* that sum exceeds 2^32 - 1.
C9_OverflowReported ==
    /\ lsic_res = "Ok" => (lsic_n.hi = lsic_sum.hi /\ lsic_n.lo = lsic_sum.lo)
    /\ (lsic_res # "run" /\ lsic_sum.hi >= 65536) => lsic_res \in ErrorKinds

\* C10 as stated: a call ends only by returning Ok or an error.
C10_Original == result \in {"none", "Ok"} \cup ErrorKinds

\* the values of pc at which an action of the decode is enabled
Steps ==
    {"token", "fast_literal", "fast_match", "fast_dict", "fast_copy", "literal", "match",
     "dict", "dup", "chunk", "set_pos"}

\* position of pc within one iteration of the decode loop, later positions lower
Phase ==
    CASE pc = "done" -> 0
      [] pc = "token" -> 1
      [] pc = "set_pos" -> 2
      [] pc = "chunk" -> 3
      [] pc \in {"dup", "fast_copy"} -> 4
      [] pc \in {"dict", "fast_dict"} -> 5
      [] pc \in {"match", "fast_match"} -> 6
      [] pc \in {"literal", "fast_literal"} -> 7

\* the variant of a call: input left, position in the iteration, chunks left
Rank == <<Len(input) - input_pos, Phase, IF pc = "chunk" THEN chunk_end - chunk_i ELSE 0>>

LexLess(a, b) ==
    \/ a[1] < b[1]
    \/ a[1] = b[1] /\ a[2] < b[2]
    \/ a[1] = b[1] /\ a[2] = b[2] /\ a[3] < b[3]

\* C10 amended: every call ends (it returns Ok or an error, or panics on an index out of
\* range): a running call can always take a step, every step lowers the variant Rank,
\* input_pos stays within the input and every loop iteration consumes at least one byte.
C10_Terminates ==
    /\ [](pc \in Steps \cup {"done"})
    /\ [](input_pos <= Len(input) /\ iters <= input_pos /\ Rank[3] >= 0)
    /\ [][call' = call => LexLess(Rank', Rank)]_vars

\* a match fully served from the dictionary is back at the loop head (the continue branch)
C10_Witness ==
    /\ pc = "token" /\ use_dict /\ offset # NoOffset
    /\ offset - m_pos >= m_len /\ pos = m_pos + m_len /\ input_pos < Len(input)

====
